---- MODULE Spec2Model ----
(***************************************************************************)
(* Model of the DiaLog RPC session/cursor layer                            *)
(* (librpc/rpc/dialog_server.h) on top of the table engine it drives.      *)
(*                                                                         *)
(* dialog_service_handler, dialog_clone_factory: translated from the       *)
(* source.  dialog_store, dialog_table, thread_manager and the expression  *)
(* compiler are used by the handler but their code is not part of the      *)
(* sources at hand; they are modelled from the design document.            *)
(***************************************************************************)
EXTENDS Integers, Sequences, FiniteSets, TLC

(***************************************************************************)
(* Bounds                                                                  *)
(***************************************************************************)
MaxRecords == 2        \* appends per table
MaxIterators == 1      \* cursor ids per handler where pages are followed
MaxIssued == 2         \* cursor ids per handler where ids are followed
MaxBatchSize == 2      \* ITERATOR_BATCH_SIZE ranges over 1..MaxBatchSize
MaxConcurrency == 2    \* slots of the thread registry
MaxTables == 2         \* table ids given out by the store
MaxEvents == 4         \* records appended where alerts are followed

(***************************************************************************)
(* Value domains                                                           *)
(***************************************************************************)
NsPerMs == 1000000
Sessions == {"S1", "S2"}
TableNames == {"my_table"}
Schema == <<"ts", "e">>                 \* implicit timestamp + one column
RecordSize == Len(Schema)
Timestamps == {0, NsPerMs}              \* nanoseconds
EVals == {0, 1}
Records == {<<ts, e>> : ts \in Timestamps, e \in EVals}
FilterNames == {"f"}
TriggerNames == {"t1", "t2"}
TriggerOrder == <<"t1", "t2">>
FilterExprs == {"e > 0", "e >"}
AdhocExprs == {"e > 0", "e == 0", "e >"}
TriggerExprs == {"COUNT() > 0", "COUNT >"}
BadExprs == {"e >", "COUNT >"}           \* unparsable strings
NULL == -1                              \* nullptr
RPC_ADHOC == "RPC_ADHOC"
RPC_PREDEF == "RPC_PREDEF"
RPC_COMBINED == "RPC_COMBINED"
RPC_ALERTS == "RPC_ALERTS"
IteratorTypes == {RPC_ADHOC, RPC_PREDEF, RPC_COMBINED, RPC_ALERTS}

VARIABLES
  ITERATOR_BATCH_SIZE, \* rpc_configuration_params::ITERATOR_BATCH_SIZE
  tables,              \* dialog_store: table name -> table id
  tbl,                 \* dialog_store: table id -> dialog_table state
  thread_ids,          \* thread_manager: connection thread -> id, -1 if none
  handlers,            \* connections that own a dialog_service_handler
  handler_id_,         \* per handler
  cur_table_,          \* per handler: table id or NULL
  iterator_id_,        \* per handler
  adhoc_,              \* per handler: id -> adhoc stream
  predef_,             \* per handler: id -> predef stream
  combined_,           \* per handler: id -> combined stream
  alerts_,             \* per handler: id -> (first, second)
  ret,                 \* outcome of the last call
  scans                \* history: per handler, what each cursor was opened
                       \* over and what it has returned so far

storeVars == <<tables, tbl>>
cursorVars == <<adhoc_, predef_, combined_, alerts_>>
handlerVars == <<handlers, handler_id_, cur_table_, iterator_id_, cursorVars>>
vars == <<ITERATOR_BATCH_SIZE, storeVars, thread_ids, handlerVars, ret, scans>>

(***************************************************************************)
(* Helpers                                                                 *)
(***************************************************************************)
Min(a, b) == IF a < b THEN a ELSE b
Max(a, b) == IF a > b THEN a ELSE b
Empty == <<>>

RECURSIVE Flatten(_)
Flatten(ss) == IF ss = <<>> THEN <<>> ELSE Head(ss) \o Flatten(Tail(ss))

RECURSIVE SortedSeq(_)
SortedSeq(S) ==
  IF S = {} THEN <<>>
  ELSE LET m == CHOOSE x \in S : \A y \in S : x <= y
       IN <<m>> \o SortedSeq(S \ {m})

IsPrefix(a, b) == Len(a) <= Len(b) /\ SubSeq(b, 1, Len(a)) = a

(***************************************************************************)
(* Expression compiler                                                     *)
(***************************************************************************)
\* the strings that are no expression of either grammar
Unparsable(expr) == expr \in {"e >", "COUNT >"}

ParseFilter(expr) ==
  CASE expr = "e > 0"  -> [ok |-> TRUE, op |-> ">", lit |-> 0]
    [] expr = "e == 0" -> [ok |-> TRUE, op |-> "==", lit |-> 0]
    [] OTHER           -> [ok |-> FALSE, op |-> "", lit |-> 0]

EvalFilter(expr, rec) ==
  LET c == ParseFilter(expr)
  IN  CASE c.op = ">"  -> rec[2] > c.lit
        [] c.op = "==" -> rec[2] = c.lit
        [] OTHER       -> FALSE

ParseTrigger(expr) ==
  CASE expr = "COUNT() > 0" -> [ok |-> TRUE, agg |-> "COUNT", op |-> ">", lit |-> 0]
    [] expr = "COUNT() > 1" -> [ok |-> TRUE, agg |-> "COUNT", op |-> ">", lit |-> 1]
    [] OTHER                -> [ok |-> FALSE, agg |-> "", op |-> "", lit |-> 0]

\* COUNT() > k taken as COUNT() >= k
EvalTrigger_at_least(expr, value) == value >= ParseTrigger(expr).lit

EvalTrigger(expr, value) == value > ParseTrigger(expr).lit

(***************************************************************************)
(* Record store                                                            *)
(***************************************************************************)
TimeBucket(ts) == ts \div NsPerMs

Rec(store, off) == SubSeq(store, off + 1, off + RecordSize)

Offsets(tail) == {o \in 0..tail : o % RecordSize = 0 /\ o < tail}

\* log: history of the appends, the offset returned and the record given
\* inflight: the appends that have begun and not returned, per thread
NewTable ==
  [store |-> <<>>, filters |-> Empty, triggers |-> Empty,
   alerts |-> <<>>, latest |-> -1, log |-> <<>>, inflight |-> Empty]

StoreAppend(store, data) == store \o SubSeq(data, 1, RecordSize)

StoreRead(store, offset, nbytes) == SubSeq(store, offset + 1, offset + nbytes)

NumRecords(t) == Len(t.store) \div RecordSize

(***************************************************************************)
(* Filter engine and trigger engine: what one append does                  *)
(***************************************************************************)
\* every matching record filed under bucket 0
IndexInsert_unbucketed(idx, ms, off) ==
  IF 0 \in DOMAIN idx THEN [idx EXCEPT ![0] = Append(@, off)]
  ELSE idx @@ (0 :> <<off>>)

IndexInsert(idx, ms, off) ==
  IF ms \in DOMAIN idx THEN [idx EXCEPT ![ms] = Append(@, off)]
  ELSE idx @@ (ms :> <<off>>)

Bump(agg, ms) ==
  IF ms \in DOMAIN agg THEN [agg EXCEPT ![ms] = @ + 1] ELSE agg @@ (ms :> 1)

AggOf(trig, b) == IF b \in DOMAIN trig.agg THEN trig.agg[b] ELSE 0

AlertOf(name, trig, b) ==
  [trigger_name |-> name, time_bucket_ms |-> b, value |-> AggOf(trig, b)]

RECURSIVE CloseBucket(_, _, _)
CloseBucket(triggers, order, b) ==
  IF order = <<>> THEN <<>>
  ELSE LET n == Head(order)
           rest == CloseBucket(triggers, Tail(order), b)
       IN  IF n \in DOMAIN triggers
              /\ EvalTrigger(triggers[n].expr, AggOf(triggers[n], b))
           THEN <<AlertOf(n, triggers[n], b)>> \o rest
           ELSE rest

TableAppend(t, data) ==
  LET rec == SubSeq(data, 1, RecordSize)
      off == Len(t.store)
      ms == TimeBucket(rec[1])
      hit(f) == f \in DOMAIN t.filters /\ EvalFilter(t.filters[f].expr, rec)
      closing == t.latest >= 0 /\ ms > t.latest
  IN  [store |-> StoreAppend(t.store, data),
       filters |-> [f \in DOMAIN t.filters |->
                     IF hit(f)
                     THEN [t.filters[f] EXCEPT
                             !.time_index = IndexInsert(@, ms, off)]
                     ELSE t.filters[f]],
       triggers |-> [n \in DOMAIN t.triggers |->
                      IF hit(t.triggers[n].filter_name)
                      THEN [t.triggers[n] EXCEPT !.agg = Bump(@, ms)]
                      ELSE t.triggers[n]],
       alerts |-> IF closing
                  THEN t.alerts \o CloseBucket(t.triggers, TriggerOrder, t.latest)
                  ELSE t.alerts,
       latest |-> Max(t.latest, ms),
       log |-> Append(t.log, [offset |-> off, data |-> rec]),
       inflight |-> t.inflight]

\* An append in steps: the call begins, reserves its bytes at the tail under
\* the append lock, then copies the record, publishes the new tail and
\* returns.  seen: the number of appends that had returned when it began.
Without(f, x) == [y \in DOMAIN f \ {x} |-> f[y]]

Reserved(t) == {x \in DOMAIN t.inflight : t.inflight[x].offset >= 0}

TableBegin(t, x, data) ==
  [t EXCEPT !.inflight =
     @ @@ (x :> [data |-> data, seen |-> Len(t.log), offset |-> -1])]

\* the tail taken without the append lock
can_reserve_unlocked(t, x) == TRUE

can_reserve(t, x) == Reserved(t) = {}

TableReserve(t, x) == [t EXCEPT !.inflight[x].offset = Len(t.store)]

TablePublish(t, x) ==
  LET p == t.inflight[x]
      t2 == TableAppend(t, p.data)
  IN  [t2 EXCEPT !.log[Len(t2.log)].offset = p.offset,
                 !.inflight = Without(@, x)]

(***************************************************************************)
(* Result streams of the table                                             *)
(***************************************************************************)
Seek(store, expr, from, end) ==
  LET S == {o \in Offsets(end) : o >= from /\ EvalFilter(expr, Rec(store, o))}
  IN  IF S = {} THEN end ELSE CHOOSE o \in S : \A p \in S : o <= p

execute_filter(tid, t, expr) ==
  [tbl |-> tid, expr |-> expr,
   pos |-> Seek(t.store, expr, 0, Len(t.store)), end |-> Len(t.store)]

WindowOffsets(idx, begin_ms, end_ms) ==
  LET bs == SortedSeq({b \in DOMAIN idx : begin_ms <= b /\ b <= end_ms})
  IN  Flatten([i \in 1..Len(bs) |-> idx[bs[i]]])

RECURSIVE Skip(_, _, _)
Skip(store, expr, offs) ==
  IF offs = <<>> \/ EvalFilter(expr, Rec(store, Head(offs))) THEN offs
  ELSE Skip(store, expr, Tail(offs))

query_filter(tid, t, name, begin_ms, end_ms) ==
  [tbl |-> tid,
   offs |-> WindowOffsets(t.filters[name].time_index, begin_ms, end_ms)]

query_filter_expr(tid, t, name, expr, begin_ms, end_ms) ==
  [tbl |-> tid, expr |-> expr,
   offs |-> Skip(t.store, expr,
                 WindowOffsets(t.filters[name].time_index, begin_ms, end_ms))]

get_alerts(tid, t, begin_ms, end_ms) ==
  [tbl |-> tid,
   first |-> 1 + Cardinality({i \in DOMAIN t.alerts :
                               t.alerts[i].time_bucket_ms < begin_ms}),
   second |-> 1 + Cardinality({i \in DOMAIN t.alerts :
                                t.alerts[i].time_bucket_ms <= end_ms})]

\* alert::to_string: trigger_name|bucket_ms|value|message
Bar == 124
NL == 10
NameBytes(name) == IF name = "t1" THEN <<116, 49>> ELSE <<116, 50>>

RECURSIVE DecimalBytes(_)
DecimalBytes(n) ==
  IF n < 10 THEN <<48 + n>> ELSE DecimalBytes(n \div 10) \o <<48 + (n % 10)>>

AlertToString(a) ==
  NameBytes(a.trigger_name) \o <<Bar>> \o DecimalBytes(a.time_bucket_ms)
    \o <<Bar>> \o DecimalBytes(a.value) \o <<Bar>>

\* an ad-hoc stream that scans up to the tail of the moment
limit_live(res, t) == Len(t.store)

\* an ad-hoc stream scans up to the tail it saw when it was created
limit(res, t) == res.end

has_more(type, res, t) ==
  CASE type = RPC_ADHOC    -> res.pos < limit(res, t)
    [] type = RPC_PREDEF   -> res.offs # <<>>
    [] type = RPC_COMBINED -> res.offs # <<>>
    [] type = RPC_ALERTS   -> res.first # res.second

get(type, res, t) ==
  CASE type = RPC_ADHOC    -> Rec(t.store, res.pos)
    [] type = RPC_PREDEF   -> Rec(t.store, Head(res.offs))
    [] type = RPC_COMBINED -> Rec(t.store, Head(res.offs))
    [] type = RPC_ALERTS   -> AlertToString(t.alerts[res.first]) \o <<NL>>

next(type, res, t) ==
  CASE type = RPC_ADHOC    ->
         [res EXCEPT !.pos = Seek(t.store, res.expr, res.pos + RecordSize,
                                  limit(res, t))]
    [] type = RPC_PREDEF   -> [res EXCEPT !.offs = Tail(@)]
    [] type = RPC_COMBINED ->
         [res EXCEPT !.offs = Skip(t.store, res.expr, Tail(@))]
    [] type = RPC_ALERTS   -> [res EXCEPT !.first = @ + 1]

(***************************************************************************)
(* Replies                                                                 *)
(***************************************************************************)
NoDesc == [handler_id |-> -1, id |-> -1, type |-> "", data_type |-> ""]

\* req: what the call was given, as far as the properties need it
Reply(s, op, status, msg, value) ==
  [s |-> s, op |-> op, req |-> "", status |-> status, msg |-> msg,
   value |-> value, desc |-> NoDesc, data |-> <<>>, num_entries |-> 0,
   has_more |-> FALSE]

Handle(s, op, h) ==
  [s |-> s, op |-> op, req |-> "", status |-> "ok", msg |-> "", value |-> 0,
   desc |-> h.desc, data |-> h.data, num_entries |-> h.num_entries,
   has_more |-> h.has_more]

Given(r, req) == [r EXCEPT !.req = req]

Management(s, op, msg) == Reply(s, op, "rpc_management_exception", msg, 0)
InvalidOperation(s, op, msg) == Reply(s, op, "rpc_invalid_operation", msg, 0)

NoScans == [issued |-> <<>>, cur |-> Empty]

(***************************************************************************)
(* dialog_service_handler: construction, registration                      *)
(***************************************************************************)
Init ==
  /\ ITERATOR_BATCH_SIZE \in 1..MaxBatchSize
  /\ tables = Empty
  /\ tbl = Empty
  /\ thread_ids = [s \in Sessions |-> -1]
  /\ handlers = [s \in Sessions |-> "none"]
  /\ handler_id_ = [s \in Sessions |-> -1]
  /\ cur_table_ = [s \in Sessions |-> NULL]
  /\ iterator_id_ = [s \in Sessions |-> 0]
  /\ adhoc_ = [s \in Sessions |-> Empty]
  /\ predef_ = [s \in Sessions |-> Empty]
  /\ combined_ = [s \in Sessions |-> Empty]
  /\ alerts_ = [s \in Sessions |-> Empty]
  /\ ret = Reply("", "", "", "", 0)
  /\ scans = [s \in Sessions |-> NoScans]

Live(s) == handlers[s] = "live"

\* dialog_clone_factory::getHandler: new dialog_service_handler(store_)
getHandler(s) ==
  /\ handlers[s] = "none"
  /\ handlers' = [handlers EXCEPT ![s] = "live"]
  /\ handler_id_' = [handler_id_ EXCEPT ![s] = -1]
  /\ cur_table_' = [cur_table_ EXCEPT ![s] = NULL]
  /\ iterator_id_' = [iterator_id_ EXCEPT ![s] = 0]
  /\ ret' = Reply(s, "getHandler", "ok", "", 0)
  /\ UNCHANGED <<ITERATOR_BATCH_SIZE, storeVars, thread_ids, cursorVars, scans>>

NumCursors(s) ==
  Cardinality(DOMAIN adhoc_[s]) + Cardinality(DOMAIN predef_[s])
    + Cardinality(DOMAIN combined_[s]) + Cardinality(DOMAIN alerts_[s])

\* the handler is dropped but its members are not destroyed
releaseHandler_leak(s) ==
  /\ Live(s)
  /\ handlers' = [handlers EXCEPT ![s] = "released"]
  /\ ret' = Reply(s, "releaseHandler", "ok", "", NumCursors(s))
  /\ UNCHANGED <<ITERATOR_BATCH_SIZE, storeVars, thread_ids, handler_id_,
                 cur_table_, iterator_id_, cursorVars, scans>>

\* dialog_clone_factory::releaseHandler: delete handler
releaseHandler(s) ==
  /\ Live(s)
  /\ handlers' = [handlers EXCEPT ![s] = "released"]
  /\ handler_id_' = [handler_id_ EXCEPT ![s] = -1]
  /\ cur_table_' = [cur_table_ EXCEPT ![s] = NULL]
  /\ iterator_id_' = [iterator_id_ EXCEPT ![s] = 0]
  /\ adhoc_' = [adhoc_ EXCEPT ![s] = Empty]
  /\ predef_' = [predef_ EXCEPT ![s] = Empty]
  /\ combined_' = [combined_ EXCEPT ![s] = Empty]
  /\ alerts_' = [alerts_ EXCEPT ![s] = Empty]
  /\ scans' = [scans EXCEPT ![s] = NoScans]
  /\ ret' = Reply(s, "releaseHandler", "ok", "", NumCursors(s))
  /\ UNCHANGED <<ITERATOR_BATCH_SIZE, storeVars, thread_ids>>

\* thread_manager::register_thread
FreeIds == (0..(MaxConcurrency - 1)) \ {thread_ids[s] : s \in Sessions}

register_handler(s) ==
  /\ Live(s)
  /\ \E id \in (IF thread_ids[s] = -1 THEN FreeIds ELSE {}) \cup
               (IF thread_ids[s] = -1 /\ FreeIds # {} THEN {} ELSE {-1}) :
       /\ handler_id_' = [handler_id_ EXCEPT ![s] = id]
       /\ IF id < 0
          THEN /\ ret' = Management(s, "register_handler",
                                    "Could not register handler")
               /\ UNCHANGED thread_ids
          ELSE /\ ret' = Reply(s, "register_handler", "ok", "", id)
               /\ thread_ids' = [thread_ids EXCEPT ![s] = id]
  /\ UNCHANGED <<ITERATOR_BATCH_SIZE, storeVars, handlers, cur_table_,
                 iterator_id_, cursorVars, scans>>

deregister_handler(s) ==
  /\ Live(s)
  /\ IF thread_ids[s] < 0
     THEN /\ ret' = Management(s, "deregister_handler",
                               "Could not deregister handler")
          /\ UNCHANGED thread_ids
     ELSE /\ ret' = Reply(s, "deregister_handler", "ok", "", thread_ids[s])
          /\ thread_ids' = [thread_ids EXCEPT ![s] = -1]
  /\ UNCHANGED <<ITERATOR_BATCH_SIZE, storeVars, handlerVars, scans>>

(***************************************************************************)
(* Table management                                                        *)
(***************************************************************************)
\* add_table on a name that exists puts a new table under the name
create_table_replacing(s, table_name) ==
  /\ Live(s)
  /\ LET id == Cardinality(DOMAIN tbl)
     IN  /\ tables' = [n \in DOMAIN tables \cup {table_name} |->
                         IF n = table_name THEN id ELSE tables[n]]
         /\ tbl' = tbl @@ (id :> NewTable)
         /\ ret' = Given(Reply(s, "create_table", "ok", "", id), table_name)
  /\ UNCHANGED <<ITERATOR_BATCH_SIZE, thread_ids, handlerVars, scans>>

create_table(s, table_name) ==
  /\ Live(s)
  /\ IF table_name \in DOMAIN tables
     THEN /\ ret' = Given(Management(s, "create_table",
                                     "Table already exists"), table_name)
          /\ UNCHANGED storeVars
     ELSE LET id == Cardinality(DOMAIN tbl)
          IN  /\ tables' = tables @@ (table_name :> id)
              /\ tbl' = tbl @@ (id :> NewTable)
              /\ ret' = Given(Reply(s, "create_table", "ok", "", id),
                              table_name)
  /\ UNCHANGED <<ITERATOR_BATCH_SIZE, thread_ids, handlerVars, scans>>

\* The table registry's other operations, called on the store directly.
\* A removed table leaves its id taken: ids are never given twice.
\* by: how it was removed, kept for the properties
NoTable(by) == [removed |-> by]

IsTableIn(t, id) == id \in DOMAIN t /\ "removed" \notin DOMAIN t[id]

IsTable(id) == IsTableIn(tbl, id)

NamesOf(id) == {n \in DOMAIN tables : tables[n] = id}

get_table_id(table_name) ==
  /\ ret' = Given(Reply("", "get_table_id", "ok", "",
                        IF table_name \in DOMAIN tables
                        THEN tables[table_name] ELSE -1), table_name)
  /\ UNCHANGED <<ITERATOR_BATCH_SIZE, storeVars, thread_ids, handlerVars,
                 scans>>

\* the by-id entry dropped, the name left behind
remove_table_keeps_name(id) ==
  /\ IF IsTable(id)
     THEN /\ tbl' = [tbl EXCEPT ![id] = NoTable("id")]
          /\ UNCHANGED tables
          /\ ret' = Given(Reply("", "remove_table", "ok", "", id), id)
     ELSE /\ ret' = Given(Reply("", "remove_table", "ok", "", -1), id)
          /\ UNCHANGED storeVars
  /\ UNCHANGED <<ITERATOR_BATCH_SIZE, thread_ids, handlerVars, scans>>

remove_table(id) ==
  /\ IF IsTable(id)
     THEN /\ tbl' = [tbl EXCEPT ![id] = NoTable("id")]
          /\ tables' = [n \in DOMAIN tables \ NamesOf(id) |-> tables[n]]
          /\ ret' = Given(Reply("", "remove_table", "ok", "", id), id)
     ELSE /\ ret' = Given(Reply("", "remove_table", "ok", "", -1), id)
          /\ UNCHANGED storeVars
  /\ UNCHANGED <<ITERATOR_BATCH_SIZE, thread_ids, handlerVars, scans>>

NoSuchTable(table_name) == "No such table " \o table_name

remove_table_by_name(table_name) ==
  /\ IF table_name \in DOMAIN tables
     THEN LET id == tables[table_name]
          IN  /\ tbl' = [tbl EXCEPT ![id] = NoTable("name")]
              /\ tables' = [n \in DOMAIN tables \ NamesOf(id) |-> tables[n]]
              /\ ret' = Given(Reply("", "remove_table_by_name", "ok", "", id),
                              table_name)
     ELSE /\ ret' = Given(Reply("", "remove_table_by_name",
                                "management_exception",
                                NoSuchTable(table_name), 0), table_name)
          /\ UNCHANGED storeVars
  /\ UNCHANGED <<ITERATOR_BATCH_SIZE, thread_ids, handlerVars, scans>>

set_current_table(s, table_name) ==
  /\ Live(s)
  /\ IF table_name \notin DOMAIN tables
     THEN /\ ret' = Management(s, "set_current_table", "No such table")
          /\ UNCHANGED cur_table_
     ELSE /\ cur_table_' = [cur_table_ EXCEPT ![s] = tables[table_name]]
          /\ ret' = Reply(s, "set_current_table", "ok", "", 0)
  /\ UNCHANGED <<ITERATOR_BATCH_SIZE, storeVars, thread_ids, handlers,
                 handler_id_, iterator_id_, cursorVars, scans>>

HasTable(s) == Live(s) /\ cur_table_[s] # NULL
Cur(s) == tbl[cur_table_[s]]

TableOp(s, op, req, err, t2) ==
  /\ IF err # ""
     THEN /\ ret' = Given(Management(s, op, err), req)
          /\ UNCHANGED tbl
     ELSE /\ ret' = Given(Reply(s, op, "ok", "", 0), req)
          /\ tbl' = [tbl EXCEPT ![cur_table_[s]] = t2]
  /\ UNCHANGED <<ITERATOR_BATCH_SIZE, tables, thread_ids, handlerVars, scans>>

add_filter(s, filter_name, filter_expr) ==
  /\ HasTable(s)
  /\ TableOp(s, "add_filter",
       IF filter_name \notin DOMAIN Cur(s).filters /\ Unparsable(filter_expr)
       THEN "unparsable" ELSE "",
       IF filter_name \in DOMAIN Cur(s).filters THEN "Filter already exists"
       ELSE IF ~ParseFilter(filter_expr).ok THEN "parse error"
       ELSE "",
       [Cur(s) EXCEPT !.filters =
          @ @@ (filter_name :> [expr |-> filter_expr, time_index |-> Empty,
                                from |-> Len(Cur(s).store)])])

remove_filter(s, filter_name) ==
  /\ HasTable(s)
  /\ TableOp(s, "remove_filter", "",
       IF filter_name \notin DOMAIN Cur(s).filters THEN "No such filter"
       ELSE "",
       [Cur(s) EXCEPT !.filters =
          [f \in DOMAIN @ \ {filter_name} |-> @[f]]])

add_trigger(s, trigger_name, filter_name, trigger_expr) ==
  /\ HasTable(s)
  /\ TableOp(s, "add_trigger",
       IF /\ trigger_name \notin DOMAIN Cur(s).triggers
          /\ filter_name \in DOMAIN Cur(s).filters
          /\ Unparsable(trigger_expr)
       THEN "unparsable" ELSE "",
       IF trigger_name \in DOMAIN Cur(s).triggers THEN "Trigger already exists"
       ELSE IF filter_name \notin DOMAIN Cur(s).filters THEN "No such filter"
       ELSE IF ~ParseTrigger(trigger_expr).ok THEN "parse error"
       ELSE "",
       [Cur(s) EXCEPT !.triggers =
          @ @@ (trigger_name :> [filter_name |-> filter_name,
                                 expr |-> trigger_expr, agg |-> Empty])])

remove_trigger(s, trigger_name) ==
  /\ HasTable(s)
  /\ TableOp(s, "remove_trigger", "",
       IF trigger_name \notin DOMAIN Cur(s).triggers THEN "No such trigger"
       ELSE "",
       [Cur(s) EXCEPT !.triggers =
          [n \in DOMAIN @ \ {trigger_name} |-> @[n]]])

(***************************************************************************)
(* Data path                                                               *)
(***************************************************************************)
append(s, data) ==
  /\ HasTable(s)
  /\ tbl' = [tbl EXCEPT ![cur_table_[s]] = TableAppend(@, data)]
  /\ ret' = Reply(s, "append", "ok", "", Len(Cur(s).store))
  /\ UNCHANGED <<ITERATOR_BATCH_SIZE, tables, thread_ids, handlerVars, scans>>

\* append, as the steps of dialog_table::append that other threads can
\* interleave with
append_begin(s, data) ==
  /\ HasTable(s)
  /\ s \notin DOMAIN Cur(s).inflight
  /\ tbl' = [tbl EXCEPT ![cur_table_[s]] = TableBegin(@, s, data)]
  /\ UNCHANGED <<ITERATOR_BATCH_SIZE, tables, thread_ids, handlerVars, ret,
                 scans>>

append_reserve(s) ==
  /\ HasTable(s)
  /\ s \in DOMAIN Cur(s).inflight
  /\ Cur(s).inflight[s].offset < 0
  /\ can_reserve(Cur(s), s)
  /\ tbl' = [tbl EXCEPT ![cur_table_[s]] = TableReserve(@, s)]
  /\ UNCHANGED <<ITERATOR_BATCH_SIZE, tables, thread_ids, handlerVars, ret,
                 scans>>

append_return(s) ==
  /\ HasTable(s)
  /\ s \in Reserved(Cur(s))
  /\ tbl' = [tbl EXCEPT ![cur_table_[s]] = TablePublish(@, s)]
  /\ ret' = Reply(s, "append", "ok", "", Cur(s).inflight[s].offset)
  /\ UNCHANGED <<ITERATOR_BATCH_SIZE, tables, thread_ids, handlerVars, scans>>

\* _return.assign(data, nrecords): the record size forgotten
read_short(s, offset, nrecords) ==
  /\ HasTable(s)
  /\ offset + nrecords * RecordSize <= Len(Cur(s).store)
  /\ ret' = [Reply(s, "read", "ok", "", offset) EXCEPT
               !.data = StoreRead(Cur(s).store, offset, nrecords),
               !.num_entries = nrecords]
  /\ UNCHANGED <<ITERATOR_BATCH_SIZE, storeVars, thread_ids, handlerVars, scans>>

read(s, offset, nrecords) ==
  /\ HasTable(s)
  /\ offset + nrecords * RecordSize <= Len(Cur(s).store)
  /\ ret' = [Reply(s, "read", "ok", "", offset) EXCEPT
               !.data = StoreRead(Cur(s).store, offset, nrecords * RecordSize),
               !.num_entries = nrecords]
  /\ UNCHANGED <<ITERATOR_BATCH_SIZE, storeVars, thread_ids, handlerVars, scans>>

\* the tail in bytes returned in place of the number of records
num_records_tail(s) ==
  /\ HasTable(s)
  /\ ret' = Reply(s, "num_records", "ok", "", Len(Cur(s).store))
  /\ UNCHANGED <<ITERATOR_BATCH_SIZE, storeVars, thread_ids, handlerVars, scans>>

num_records(s) ==
  /\ HasTable(s)
  /\ ret' = Reply(s, "num_records", "ok", "", NumRecords(Cur(s)))
  /\ UNCHANGED <<ITERATOR_BATCH_SIZE, storeVars, thread_ids, handlerVars, scans>>

(***************************************************************************)
(* Unpaginated scans: what a stream opened now would yield in one pass     *)
(***************************************************************************)
MatchingOffsets(t, expr) ==
  SortedSeq({o \in Offsets(Len(t.store)) : EvalFilter(expr, Rec(t.store, o))})

InWindow(t, name, expr, begin_ms, end_ms) ==
  LET w == WindowOffsets(t.filters[name].time_index, begin_ms, end_ms)
      keep(o) == expr = "" \/ EvalFilter(expr, Rec(t.store, o))
  IN  SelectSeq(w, keep)

AlertsInWindow(t, begin_ms, end_ms) ==
  LET keep(a) == begin_ms <= a.time_bucket_ms /\ a.time_bucket_ms <= end_ms
  IN  SelectSeq(t.alerts, keep)

RecordItems(store, offs) == [i \in 1..Len(offs) |-> Rec(store, offs[i])]

AlertItems(as) == [i \in 1..Len(as) |-> AlertToString(as[i]) \o <<NL>>]

Scan(items, tail) == [items |-> items, tail |-> tail]

(***************************************************************************)
(* Cursors                                                                 *)
(***************************************************************************)
\* the counter incremented but the first id returned every time
new_iterator_id_reused(s) == [id |-> 0, next |-> iterator_id_[s] + 1]

\* iterator_id_ returned but not incremented
new_iterator_id_stuck(s) == [id |-> iterator_id_[s], next |-> iterator_id_[s]]

\* iterator_id_++
new_iterator_id(s) == [id |-> iterator_id_[s], next |-> iterator_id_[s] + 1]

CursorMap(type) ==
  CASE type = RPC_ADHOC    -> adhoc_
    [] type = RPC_PREDEF   -> predef_
    [] type = RPC_COMBINED -> combined_
    [] type = RPC_ALERTS   -> alerts_

\* the loop with i <= to_read: one item too many per page
RECURSIVE more_loop_off_by_one(_, _, _, _, _, _)
more_loop_off_by_one(type, res, t, i, to_read, data) ==
  IF has_more(type, res, t) /\ i <= to_read
  THEN more_loop_off_by_one(type, next(type, res, t), t, i + 1, to_read,
                            data \o get(type, res, t))
  ELSE [res |-> res, i |-> i, data |-> data]

\* the loop leaving the stream one item past the last one it returned
RECURSIVE more_loop_skips(_, _, _, _, _, _)
more_loop_skips(type, res, t, i, to_read, data) ==
  IF has_more(type, res, t) /\ i < to_read
  THEN more_loop_skips(type, next(type, res, t), t, i + 1, to_read,
                       data \o get(type, res, t))
  ELSE [res |-> IF has_more(type, res, t) THEN next(type, res, t) ELSE res,
        i |-> i, data |-> data]

\* for (; res.has_more() && i < to_read; ++i, ++res) data.append(res.get())
RECURSIVE more_loop(_, _, _, _, _, _)
more_loop(type, res, t, i, to_read, data) ==
  IF has_more(type, res, t) /\ i < to_read
  THEN more_loop(type, next(type, res, t), t, i + 1, to_read,
                 data \o get(type, res, t))
  ELSE [res |-> res, i |-> i, data |-> data]

\* map[it_id] in place of map.at(it_id): an unknown id reads as an empty page
more_unchecked(type, data_type, s, map, it_id) ==
  LET page(r, t) ==
        [desc |-> [handler_id |-> handler_id_[s], id |-> it_id,
                   type |-> type, data_type |-> data_type],
         data |-> r.data, num_entries |-> r.i,
         has_more |-> has_more(type, r.res, t)]
  IN  IF it_id \notin DOMAIN map
      THEN [ok |-> TRUE, map |-> map,
            h |-> [desc |-> [handler_id |-> handler_id_[s], id |-> it_id,
                             type |-> type, data_type |-> data_type],
                   data |-> <<>>, num_entries |-> 0, has_more |-> FALSE]]
      ELSE LET t == tbl[map[it_id].tbl]
               r == more_loop(type, map[it_id], t, 0, ITERATOR_BATCH_SIZE,
                              <<>>)
           IN  [ok |-> TRUE, map |-> (it_id :> r.res) @@ map, h |-> page(r, t)]

\* a fetch that finds nothing left erases the cursor
more_erasing(type, data_type, s, map, it_id) ==
  IF it_id \notin DOMAIN map
  THEN [ok |-> FALSE, msg |-> "No such iterator"]
  ELSE LET t == tbl[map[it_id].tbl]
           r == more_loop(type, map[it_id], t, 0, ITERATOR_BATCH_SIZE, <<>>)
       IN  [ok |-> TRUE,
            map |-> IF r.i = 0
                    THEN [k \in DOMAIN map \ {it_id} |-> map[k]]
                    ELSE (it_id :> r.res) @@ map,
            h |-> [desc |-> [handler_id |-> handler_id_[s], id |-> it_id,
                             type |-> type, data_type |-> data_type],
                   data |-> r.data, num_entries |-> r.i,
                   has_more |-> has_more(type, r.res, t)]]

more(type, data_type, s, map, it_id) ==
  IF it_id \notin DOMAIN map
  THEN [ok |-> FALSE, msg |-> "No such iterator"]
  ELSE LET t == tbl[map[it_id].tbl]
           r == more_loop(type, map[it_id], t, 0, ITERATOR_BATCH_SIZE, <<>>)
       IN  [ok |-> TRUE, map |-> (it_id :> r.res) @@ map,
            h |-> [desc |-> [handler_id |-> handler_id_[s], id |-> it_id,
                             type |-> type, data_type |-> data_type],
                   data |-> r.data, num_entries |-> r.i,
                   has_more |-> has_more(type, r.res, t)]]

adhoc_more(s, map, it_id) == more(RPC_ADHOC, "RPC_RECORD", s, map, it_id)
predef_more(s, map, it_id) == more(RPC_PREDEF, "RPC_RECORD", s, map, it_id)
combined_more(s, map, it_id) == more(RPC_COMBINED, "RPC_RECORD", s, map, it_id)
alerts_more(s, map, it_id) == more(RPC_ALERTS, "RPC_ALERT", s, map, it_id)

\* the descriptor's kind ignored: the cursor is looked up in every map
dispatch_any_kind(type, s, map, it_id) ==
  CASE it_id \in DOMAIN map /\ type = RPC_ADHOC -> adhoc_more(s, map, it_id)
    [] it_id \in DOMAIN map /\ type = RPC_PREDEF -> predef_more(s, map, it_id)
    [] it_id \in DOMAIN map /\ type = RPC_COMBINED ->
         combined_more(s, map, it_id)
    [] it_id \in DOMAIN map /\ type = RPC_ALERTS -> alerts_more(s, map, it_id)
    [] it_id \in DOMAIN adhoc_[s]    -> adhoc_more(s, adhoc_[s], it_id)
    [] it_id \in DOMAIN predef_[s]   -> predef_more(s, predef_[s], it_id)
    [] it_id \in DOMAIN combined_[s] -> combined_more(s, combined_[s], it_id)
    [] it_id \in DOMAIN alerts_[s]   -> alerts_more(s, alerts_[s], it_id)
    [] OTHER                         -> adhoc_more(s, map, it_id)

dispatch(type, s, map, it_id) ==
  CASE type = RPC_ADHOC    -> adhoc_more(s, map, it_id)
    [] type = RPC_PREDEF   -> predef_more(s, map, it_id)
    [] type = RPC_COMBINED -> combined_more(s, map, it_id)
    [] type = RPC_ALERTS   -> alerts_more(s, map, it_id)

\* one map of each kind for all the handlers
SetMaps_shared(s, type, map) ==
  /\ adhoc_' = IF type = RPC_ADHOC THEN [x \in Sessions |-> map] ELSE adhoc_
  /\ predef_' = IF type = RPC_PREDEF THEN [x \in Sessions |-> map] ELSE predef_
  /\ combined_' = IF type = RPC_COMBINED THEN [x \in Sessions |-> map]
                  ELSE combined_
  /\ alerts_' = IF type = RPC_ALERTS THEN [x \in Sessions |-> map] ELSE alerts_

SetMaps(s, type, map) ==
  /\ adhoc_' = IF type = RPC_ADHOC THEN [adhoc_ EXCEPT ![s] = map] ELSE adhoc_
  /\ predef_' = IF type = RPC_PREDEF THEN [predef_ EXCEPT ![s] = map] ELSE predef_
  /\ combined_' = IF type = RPC_COMBINED THEN [combined_ EXCEPT ![s] = map]
                  ELSE combined_
  /\ alerts_' = IF type = RPC_ALERTS THEN [alerts_ EXCEPT ![s] = map] ELSE alerts_

\* the history of a cursor: its scan at open, and the pages it has returned
Opened(sc, key, scan, reg) ==
  [sc EXCEPT !.cur = (key :> [items |-> scan.items, tail |-> scan.tail,
                              reg |-> reg, taken |-> 0, got |-> <<>>])
                       @@ @]
Fetched(sc, key, h) ==
  IF key \in DOMAIN sc.cur
  THEN [sc EXCEPT !.cur[key].taken = @ + h.num_entries,
                  !.cur[key].got = @ \o h.data]
  ELSE sc

\* the tail of every open call: insert into the map, then *_more
open(s, op, req, type, parse_ok, res, scan) ==
  LET nid == new_iterator_id(s)
      map == CursorMap(type)[s]
      success == nid.id \notin DOMAIN map
      ins == map @@ (nid.id :> res)
      r == dispatch(type, s, ins, nid.id)
      issued == [scans[s] EXCEPT !.issued = Append(@, nid.id)]
  IN  /\ iterator_id_' = [iterator_id_ EXCEPT ![s] = nid.next]
      /\ IF ~parse_ok
         THEN /\ ret' = Given(InvalidOperation(s, op, "parse error"), req)
              /\ scans' = [scans EXCEPT ![s] = issued]
              /\ UNCHANGED cursorVars
         ELSE IF ~success
         THEN /\ ret' = Given(InvalidOperation(s, op,
                                "Duplicate rpc_iterator_id assigned"), req)
              /\ scans' = [scans EXCEPT ![s] = issued]
              /\ UNCHANGED cursorVars
         ELSE /\ ret' = Given(Handle(s, op, r.h), req)
              /\ scans' = [scans EXCEPT ![s] =
                   Fetched(Opened(issued, <<type, nid.id>>, scan,
                                  thread_ids[s]),
                           <<type, nid.id>>, r.h)]
              /\ SetMaps(s, type, r.map)
      /\ UNCHANGED <<ITERATOR_BATCH_SIZE, storeVars, thread_ids, handlers,
                     handler_id_, cur_table_>>

CanOpen(s) == HasTable(s)

\* the id allocated only once the expression has parsed
adhoc_filter_late_id(s, filter_expr) ==
  /\ CanOpen(s)
  /\ IF ParseFilter(filter_expr).ok
     THEN open(s, "adhoc_filter", "", RPC_ADHOC, TRUE,
               execute_filter(cur_table_[s], Cur(s), filter_expr),
               Scan(RecordItems(Cur(s).store,
                                MatchingOffsets(Cur(s), filter_expr)),
                    Len(Cur(s).store)))
     ELSE /\ ret' = Given(InvalidOperation(s, "adhoc_filter", "parse error"),
                          "unparsable")
          /\ UNCHANGED <<ITERATOR_BATCH_SIZE, storeVars, thread_ids,
                         handlerVars, scans>>

adhoc_filter(s, filter_expr) ==
  /\ CanOpen(s)
  /\ open(s, "adhoc_filter",
          IF Unparsable(filter_expr) THEN "unparsable" ELSE "",
          RPC_ADHOC, ParseFilter(filter_expr).ok,
          execute_filter(cur_table_[s], Cur(s), filter_expr),
          Scan(RecordItems(Cur(s).store,
                           MatchingOffsets(Cur(s), filter_expr)),
               Len(Cur(s).store)))

predef_filter(s, filter_name, begin_ms, end_ms) ==
  /\ CanOpen(s)
  /\ filter_name \in DOMAIN Cur(s).filters
  /\ open(s, "predef_filter", "", RPC_PREDEF, TRUE,
          query_filter(cur_table_[s], Cur(s), filter_name, begin_ms, end_ms),
          Scan(RecordItems(Cur(s).store,
                           InWindow(Cur(s), filter_name, "", begin_ms, end_ms)),
               Len(Cur(s).store)))

\* the parse failure goes unnoticed and the cursor is registered
combined_filter_unparsed(s, filter_name, filter_expr, begin_ms, end_ms) ==
  /\ CanOpen(s)
  /\ filter_name \in DOMAIN Cur(s).filters
  /\ open(s, "combined_filter",
          IF Unparsable(filter_expr) THEN "unparsable" ELSE "",
          RPC_COMBINED, TRUE,
          query_filter_expr(cur_table_[s], Cur(s), filter_name, filter_expr,
                            begin_ms, end_ms),
          Scan(<<>>, Len(Cur(s).store)))

combined_filter(s, filter_name, filter_expr, begin_ms, end_ms) ==
  /\ CanOpen(s)
  /\ filter_name \in DOMAIN Cur(s).filters
  /\ open(s, "combined_filter",
          IF Unparsable(filter_expr) THEN "unparsable" ELSE "",
          RPC_COMBINED, ParseFilter(filter_expr).ok,
          query_filter_expr(cur_table_[s], Cur(s), filter_name, filter_expr,
                            begin_ms, end_ms),
          Scan(RecordItems(Cur(s).store,
                           InWindow(Cur(s), filter_name, filter_expr, begin_ms,
                                    end_ms)),
               Len(Cur(s).store)))

alerts_by_time(s, begin_ms, end_ms) ==
  /\ CanOpen(s)
  /\ open(s, "alerts_by_time", "", RPC_ALERTS, TRUE,
          get_alerts(cur_table_[s], Cur(s), begin_ms, end_ms),
          Scan(AlertItems(AlertsInWindow(Cur(s), begin_ms, end_ms)),
               Len(Cur(s).store)))

\* get_more that trusts the descriptor's handler id
handler_id_unchecked(s, desc) == FALSE

\* if (desc.handler_id != handler_id_)
handler_id_mismatch(s, desc) == desc.handler_id # handler_id_[s]

\* what a descriptor is to the session it is presented to
Presented(s, desc) ==
  IF desc.handler_id # handler_id_[s] THEN "foreign"
  ELSE IF desc.id \notin DOMAIN CursorMap(desc.type)[s] THEN "unknown"
  ELSE "known"

get_more(s, desc) ==
  /\ Live(s)
  /\ IF handler_id_mismatch(s, desc)
     THEN /\ ret' = Given(InvalidOperation(s, "get_more",
                                           "handler_id mismatch"),
                          Presented(s, desc))
          /\ UNCHANGED <<cursorVars, scans>>
     ELSE LET map == CursorMap(desc.type)[s]
              r == dispatch(desc.type, s, map, desc.id)
          IN  IF ~r.ok
              THEN /\ ret' = Given(InvalidOperation(s, "get_more", r.msg),
                                   Presented(s, desc))
                   /\ UNCHANGED <<cursorVars, scans>>
              ELSE /\ ret' = Given(Handle(s, "get_more", r.h),
                                   Presented(s, desc))
                   /\ SetMaps(s, desc.type, r.map)
                   /\ scans' = [scans EXCEPT ![s] =
                        Fetched(@, <<desc.type, desc.id>>, r.h)]
  /\ UNCHANGED <<ITERATOR_BATCH_SIZE, storeVars, thread_ids, handlers,
                 handler_id_, cur_table_, iterator_id_>>

Descriptors ==
  [handler_id : -1..(MaxConcurrency - 1), id : 0..MaxIssued,
   type : IteratorTypes, data_type : {""}]

\* the descriptors one client presents: its own handler id or a foreign one
OwnDescriptors(s) ==
  {d \in Descriptors : d.handler_id \in {handler_id_[s], handler_id_[s] + 1}}

(***************************************************************************)
(* Specifications                                                          *)
(***************************************************************************)
\* the current table of s holds fewer than n records
Room(s, n) == HasTable(s) /\ NumRecords(Cur(s)) < n

\* One client from connection to disconnection: table management and the
\* data path.
Next ==
  \E s \in {"S1"} :
    \/ getHandler(s)
    \/ releaseHandler(s)
    \/ register_handler(s)
    \/ deregister_handler(s)
    \/ \E n \in TableNames : create_table(s, n)
    \/ \E n \in TableNames : set_current_table(s, n)
    \/ \E n \in FilterNames, e \in FilterExprs : add_filter(s, n, e)
    \/ \E n \in FilterNames : remove_filter(s, n)
    \/ \E n \in {"t1"}, f \in FilterNames, e \in TriggerExprs :
         add_trigger(s, n, f, e)
    \/ \E n \in {"t1"} : remove_trigger(s, n)
    \/ \E data \in Records : Room(s, MaxRecords) /\ append(s, data)
    \/ \E o \in Offsets(MaxRecords * RecordSize), k \in 1..MaxRecords :
         read(s, o, k)
    \/ num_records(s)

Spec == Init /\ [][Next]_vars

WindowPairs == {<<0, 0>>, <<0, 1>>}

RECURSIVE AppendAll(_, _)
AppendAll(t, recs) ==
  IF recs = <<>> THEN t ELSE AppendAll(TableAppend(t, Head(recs)), Tail(recs))

RecordSeqs(n) == UNION {[1..k -> Records] : k \in 0..n}

\* my_table after add_filter("f", "e > 0"), add_trigger("t1"/"t2", "f",
\* "COUNT() > 0") and the appends of recs
Prepared(recs) ==
  AppendAll(
    [NewTable EXCEPT
       !.filters = ("f" :> [expr |-> "e > 0", time_index |-> Empty,
                            from |-> 0]),
       !.triggers = [n \in TriggerNames |->
                      [filter_name |-> "f", expr |-> "COUNT() > 0",
                       agg |-> Empty]]],
    recs)

\* A client that is connected, registered under id 0 and bound to table t
Connected(s, t) ==
  /\ ITERATOR_BATCH_SIZE \in 1..MaxBatchSize
  /\ tables = ("my_table" :> 0)
  /\ tbl = (0 :> t)
  /\ thread_ids = [x \in Sessions |-> IF x = s THEN 0 ELSE -1]
  /\ handler_id_ = [x \in Sessions |-> IF x = s THEN 0 ELSE -1]
  /\ iterator_id_ = [x \in Sessions |-> 0]
  /\ adhoc_ = [x \in Sessions |-> Empty]
  /\ predef_ = [x \in Sessions |-> Empty]
  /\ combined_ = [x \in Sessions |-> Empty]
  /\ alerts_ = [x \in Sessions |-> Empty]
  /\ ret = Reply("", "", "", "", 0)
  /\ scans = [x \in Sessions |-> NoScans]

\* One registered client on a populated table, following the pages of
\* every kind of cursor while the table grows.
InitCursor ==
  /\ \E recs \in RecordSeqs(MaxRecords) : Connected("S1", Prepared(recs))
  /\ handlers = [s \in Sessions |-> IF s = "S1" THEN "live" ELSE "none"]
  /\ cur_table_ = [s \in Sessions |-> IF s = "S1" THEN 0 ELSE NULL]

NextCursor ==
  \E s \in {"S1"} :
    \/ \E data \in {<<NsPerMs, 1>>} :
         Room(s, MaxRecords) /\ append(s, data)
    \/ \E e \in FilterExprs :
         iterator_id_[s] < MaxIterators /\ adhoc_filter(s, e)
    \/ \E n \in FilterNames, w \in WindowPairs :
         iterator_id_[s] < MaxIterators /\ predef_filter(s, n, w[1], w[2])
    \/ \E n \in FilterNames, x \in FilterExprs, w \in WindowPairs :
         /\ iterator_id_[s] < MaxIterators
         /\ combined_filter(s, n, x, w[1], w[2])
    \/ \E w \in WindowPairs :
         iterator_id_[s] < MaxIterators /\ alerts_by_time(s, w[1], w[2])
    \/ \E d \in OwnDescriptors(s) : get_more(s, d)
    \/ releaseHandler(s)

SpecCursor == InitCursor /\ [][NextCursor]_vars

\* One registered client on a table of two matching records in two time
\* buckets, opening cursors of every kind and registering filters and
\* triggers, with expressions that parse and expressions that do not.
InitIds ==
  /\ Connected("S1", Prepared(<<<<0, 1>>, <<NsPerMs, 1>>>>))
  /\ handlers = [s \in Sessions |-> IF s = "S1" THEN "live" ELSE "none"]
  /\ cur_table_ = [s \in Sessions |-> IF s = "S1" THEN 0 ELSE NULL]

NextIds ==
  \E s \in {"S1"} :
    \/ \E e \in BadExprs : add_filter(s, "g", e)
    \/ \E e \in BadExprs : add_trigger(s, "t3", "f", e)
    \/ \E e \in AdhocExprs :
         iterator_id_[s] < MaxIssued /\ adhoc_filter(s, e)
    \/ \E n \in FilterNames, w \in WindowPairs :
         iterator_id_[s] < MaxIssued /\ predef_filter(s, n, w[1], w[2])
    \/ \E n \in FilterNames, x \in FilterExprs, w \in WindowPairs :
         /\ iterator_id_[s] < MaxIssued
         /\ combined_filter(s, n, x, w[1], w[2])
    \/ \E w \in WindowPairs :
         iterator_id_[s] < MaxIssued /\ alerts_by_time(s, w[1], w[2])
    \/ \E d \in OwnDescriptors(s) : get_more(s, d)
    \/ releaseHandler(s)

SpecIds == InitIds /\ [][NextIds]_vars

\* Two connected clients sharing one table, up to the disconnection of the
\* first: S1 registers, opens cursors and deregisters; S2, registered under
\* id 0, appends; both present descriptors.
InitSessions ==
  /\ Connected("S2", NewTable)
  /\ handlers = [s \in Sessions |-> "live"]
  /\ cur_table_ = [s \in Sessions |-> 0]

SharedDescriptors ==
  {d \in Descriptors : d.type = RPC_ADHOC /\ d.id <= MaxIterators}

NextSessions ==
  \/ \E s \in Sessions, d \in SharedDescriptors : get_more(s, d)
  \/ \E s \in {"S1"} :
       \/ register_handler(s)
       \/ deregister_handler(s)
       \/ releaseHandler(s)
       \/ \E e \in FilterExprs :
            iterator_id_[s] < MaxIterators /\ adhoc_filter(s, e)
  \/ \E s \in {"S2"}, data \in {<<0, 1>>} :
       Room(s, MaxRecords) /\ append(s, data)

SpecSessions == InitSessions /\ [][NextSessions]_vars

\* The table registry: tables added through a handler, looked up and removed
\* on the store.  No handler has a current table.
InitStore == Init

StoreNames == {"my_table", "your_table"}

NextStore ==
  \/ getHandler("S1")
  \/ \E n \in StoreNames :
       /\ n \in DOMAIN tables \/ Cardinality(DOMAIN tbl) < MaxTables
       /\ create_table("S1", n)
  \/ \E n \in StoreNames : get_table_id(n)
  \/ \E id \in 0..MaxTables : remove_table(id)
  \/ \E n \in StoreNames : remove_table_by_name(n)

SpecStore == InitStore /\ [][NextStore]_vars

\* One registered client appending records of three time buckets, in any
\* order, to a table with the filter f = "e > 0" and the triggers
\* t1 = "COUNT() > 0" and t2 = "COUNT() > 1" on f, and listing the alerts.
EventTimes == {0, NsPerMs, 2 * NsPerMs}

Events == EventTimes \X EVals

Watched ==
  [NewTable EXCEPT
     !.filters = ("f" :> [expr |-> "e > 0", time_index |-> Empty,
                            from |-> 0]),
     !.triggers = ("t1" :> [filter_name |-> "f", expr |-> "COUNT() > 0",
                            agg |-> Empty]) @@
                  ("t2" :> [filter_name |-> "f", expr |-> "COUNT() > 1",
                            agg |-> Empty])]

InitAlerts ==
  /\ Connected("S1", Watched)
  /\ ITERATOR_BATCH_SIZE = MaxBatchSize
  /\ handlers = [s \in Sessions |-> IF s = "S1" THEN "live" ELSE "none"]
  /\ cur_table_ = [s \in Sessions |-> IF s = "S1" THEN 0 ELSE NULL]

NextAlerts ==
  \E s \in {"S1"} :
    \/ \E data \in Events : Room(s, MaxEvents) /\ append(s, data)
    \/ iterator_id_[s] < MaxIterators /\ alerts_by_time(s, 0, 2)

SpecAlerts == InitAlerts /\ [][NextAlerts]_vars

\* One registered client on a new table: it registers the filter f before,
\* between or after its appends, whose timestamps come in any order, and
\* queries f over all time.
InitFilter ==
  /\ Connected("S1", NewTable)
  /\ ITERATOR_BATCH_SIZE = MaxBatchSize
  /\ handlers = [s \in Sessions |-> IF s = "S1" THEN "live" ELSE "none"]
  /\ cur_table_ = [s \in Sessions |-> IF s = "S1" THEN 0 ELSE NULL]

NextFilter ==
  \E s \in {"S1"} :
    \/ \E e \in FilterExprs : add_filter(s, "f", e)
    \/ \E data \in Records : Room(s, MaxRecords) /\ append(s, data)
    \/ /\ iterator_id_[s] < MaxIterators
       /\ predef_filter(s, "f", 0, TimeBucket(NsPerMs))

SpecFilter == InitFilter /\ [][NextFilter]_vars

\* Two registered clients on one table of two matching records, pages of
\* one record: S1 opens ad hoc and combined cursors, S2 an ad hoc cursor,
\* and both fetch from their own.
InitFrame ==
  /\ ITERATOR_BATCH_SIZE = 1
  /\ tables = ("my_table" :> 0)
  /\ tbl = (0 :> Prepared(<<<<0, 1>>, <<NsPerMs, 1>>>>))
  /\ thread_ids = ("S1" :> 0) @@ ("S2" :> 1)
  /\ handlers = [s \in Sessions |-> "live"]
  /\ handler_id_ = ("S1" :> 0) @@ ("S2" :> 1)
  /\ cur_table_ = [s \in Sessions |-> 0]
  /\ iterator_id_ = [s \in Sessions |-> 0]
  /\ adhoc_ = [s \in Sessions |-> Empty]
  /\ predef_ = [s \in Sessions |-> Empty]
  /\ combined_ = [s \in Sessions |-> Empty]
  /\ alerts_ = [s \in Sessions |-> Empty]
  /\ ret = Reply("", "", "", "", 0)
  /\ scans = [s \in Sessions |-> NoScans]

FrameDescriptors(s) ==
  {d \in Descriptors :
     /\ d.handler_id = handler_id_[s]
     /\ d.type \in {RPC_ADHOC, RPC_COMBINED}
     /\ d.id < iterator_id_[s]}

NextFrame ==
  \/ \E s \in Sessions : \E d \in FrameDescriptors(s) : get_more(s, d)
  \/ \E s \in {"S1"} :
       \/ iterator_id_[s] < MaxIssued /\ adhoc_filter(s, "e > 0")
       \/ /\ iterator_id_[s] < MaxIssued
          /\ combined_filter(s, "f", "e > 0", 0, TimeBucket(NsPerMs))
  \/ \E s \in {"S2"} :
       iterator_id_[s] < MaxIterators /\ adhoc_filter(s, "e > 0")

SpecFrame == InitFrame /\ [][NextFrame]_vars

\* Two connected clients appending to one table, their appends interleaved
\* step by step.
InitAppend ==
  /\ Connected("S1", NewTable)
  /\ handlers = [s \in Sessions |-> "live"]
  /\ cur_table_ = [s \in Sessions |-> 0]

Started(t) == NumRecords(t) + Cardinality(DOMAIN t.inflight)

NextAppend ==
  \E s \in Sessions :
    \/ \E data \in Records :
         /\ HasTable(s) /\ Started(Cur(s)) < MaxRecords
         /\ append_begin(s, data)
    \/ append_reserve(s)
    \/ append_return(s)
    \/ num_records(s)

SpecAppend == InitAppend /\ [][NextAppend]_vars

(***************************************************************************)
(* Properties                                                              *)
(***************************************************************************)
RECURSIVE Drain(_, _, _)
Drain(type, res, t) ==
  IF has_more(type, res, t)
  THEN <<get(type, res, t)>> \o Drain(type, next(type, res, t), t)
  ELSE <<>>

FetchOps ==
  {"adhoc_filter", "predef_filter", "combined_filter", "alerts_by_time",
   "get_more"}
Page == ret.status = "ok" /\ ret.op \in FetchOps
PageKey == <<ret.desc.type, ret.desc.id>>
PageScan == scans[ret.s].cur[PageKey]
CursorOf(s, key) == CursorMap(key[1])[s][key[2]]
Present(s, key) == key[2] \in DOMAIN CursorMap(key[1])[s]
Keys(s) == DOMAIN scans[s].cur
NoCursors(s) ==
  /\ adhoc_[s] = Empty /\ predef_[s] = Empty
  /\ combined_[s] = Empty /\ alerts_[s] = Empty

C2_PaginationEquivalence ==
  \A s \in Sessions : \A key \in Keys(s) :
    LET c == scans[s].cur[key]
    IN  /\ IsPrefix(c.got, Flatten(c.items))
        /\ (Page /\ ret.s = s /\ PageKey = key /\ ~ret.has_more)
             => c.got = Flatten(c.items)

\* the second and last page of an alert cursor over two alerts
C2_Witness ==
  /\ Page /\ ret.op = "get_more" /\ ~ret.has_more /\ ret.num_entries = 1
  /\ ret.desc.type = RPC_ALERTS
  /\ Len(PageScan.items) = 2

\* C3: the ids a handler issues start at 0 and strictly increase, whatever
\* the kind of the cursor; the keys of the four maps are issued ids and no
\* id is a key of two maps.
C3_UniqueIds ==
  \A s \in Sessions :
    LET is == scans[s].issued
    IN  /\ Len(is) > 0 => is[1] = 0
        /\ \A i, j \in 1..Len(is) : i < j => is[i] < is[j]
        /\ \A i \in 1..Len(is) : is[i] < iterator_id_[s]
        /\ \A type \in IteratorTypes :
             DOMAIN CursorMap(type)[s] \subseteq {is[i] : i \in 1..Len(is)}
        /\ \A t1, t2 \in IteratorTypes :
             t1 # t2 =>
               DOMAIN CursorMap(t1)[s] \cap DOMAIN CursorMap(t2)[s] = {}

\* two cursors of different kinds are open and one has been fetched again
C3_Witness ==
  /\ DOMAIN adhoc_["S1"] # {} /\ DOMAIN alerts_["S1"] # {}
  /\ Page /\ ret.op = "get_more"

\* C4: get_more with the session's handler id and an id that is not a key
\* of the map of the descriptor's kind raises
\* InvalidOperation("No such iterator") and changes no cursor map.
C4_NoSuchIterator ==
  [][(ret'.op = "get_more" /\ ret'.req = "unknown") =>
       /\ ret'.status = "rpc_invalid_operation"
       /\ ret'.msg = "No such iterator"
       /\ UNCHANGED cursorVars]_vars

\* an unknown id was refused in a session that has cursors
C4_Witness ==
  /\ ret.op = "get_more" /\ ret.req = "unknown"
  /\ ~NoCursors(ret.s)

\* C5: a page over r remaining items has min(BATCH_SIZE, r) entries, which
\* are the next items of the stream; the cursor is left exactly past them;
\* has_more holds iff r > BATCH_SIZE; the descriptor names the session's
\* handler id and the cursor's id and kind.
C5_PageContents ==
  Page =>
    /\ PageKey \in Keys(ret.s)
    /\ Present(ret.s, PageKey)
    /\ LET c == PageScan
           n == Len(c.items)
           before == c.taken - ret.num_entries
           r == n - before
           cur == CursorOf(ret.s, PageKey)
       IN  /\ before >= 0
           /\ ret.num_entries = Min(ITERATOR_BATCH_SIZE, r)
           /\ ret.data = Flatten(SubSeq(c.items, before + 1,
                                        before + ret.num_entries))
           /\ Drain(ret.desc.type, cur, tbl[cur.tbl])
                = SubSeq(c.items, c.taken + 1, n)
           /\ ret.has_more = (r > ITERATOR_BATCH_SIZE)
           /\ ret.desc.handler_id = handler_id_[ret.s]

\* a get_more page that is not the first page and is not empty
C5_Witness ==
  /\ Page /\ ret.op = "get_more" /\ ret.num_entries > 0
  /\ PageScan.taken > ret.num_entries

\* C6: an ad-hoc cursor yields the matching records below the tail of the
\* moment it was opened, whatever is appended afterwards.
C6_Snapshot ==
  \A s \in Sessions : \A key \in Keys(s) :
    (key[1] = RPC_ADHOC /\ Present(s, key)) =>
      LET c == scans[s].cur[key]
          cur == CursorOf(s, key)
          t == tbl[cur.tbl]
          below == SortedSeq({o \in Offsets(c.tail) :
                               EvalFilter(cur.expr, Rec(t.store, o))})
      IN  /\ c.items = RecordItems(t.store, below)
          /\ c.got = Flatten(SubSeq(c.items, 1, c.taken))
          /\ Drain(RPC_ADHOC, cur, t) = SubSeq(c.items, c.taken + 1, Len(c.items))

\* S1 fetched from a cursor after a matching record was appended past the
\* tail the cursor was opened at
C6_Witness ==
  /\ Page /\ ret.op = "get_more" /\ ret.s = "S1"
  /\ ret.desc.type = RPC_ADHOC
  /\ PageKey \in Keys("S1") /\ Present("S1", PageKey)
  /\ LET cur == CursorOf("S1", PageKey)
         t == tbl[cur.tbl]
     IN  /\ PageScan.tail < Len(t.store)
         /\ EvalFilter(cur.expr, Rec(t.store, PageScan.tail))

\* C7, as claimed: once a session has ended, by deregister_handler or by
\* the connection closing, no get_more returns data of a cursor it opened.
Ended(s) ==
  \/ handlers[s] = "released"
  \/ (thread_ids[s] < 0 /\ handler_id_[s] >= 0)

C7_Original ==
  \A s \in Sessions :
    Ended(s) =>
      ~(Page /\ ret.s = s /\ ret.op = "get_more" /\ ret.num_entries > 0
          /\ PageScan.reg >= 0)

\* C7, amended: the cursor maps go with the handler when the connection
\* closes; deregister_handler leaves every cursor in its map.
C7_Amended ==
  \A s \in Sessions :
    /\ handlers[s] = "released" => NoCursors(s)
    /\ (ret.op = "deregister_handler" /\ ret.s = s /\ Live(s))
         => \A key \in Keys(s) : Present(s, key)

\* a handler with cursors was released
C7_Witness ==
  /\ ret.op = "releaseHandler" /\ ret.value > 0
  /\ handlers[ret.s] = "released"

\* C8, as claimed: a cursor fetched again once exhausted, with an empty
\* result, is no longer in its map.
C8_Original ==
  (Page /\ ret.op = "get_more" /\ ret.num_entries = 0 /\ ~ret.has_more)
    => ~Present(ret.s, PageKey)

\* C8, amended: a get_more never removes a cursor; an exhausted cursor
\* stays in its map and every further fetch is an empty page.
C8_Amended ==
  /\ \A s \in Sessions : Live(s) => \A key \in Keys(s) : Present(s, key)
  /\ (Page /\ ret.op = "get_more" /\ ret.num_entries = 0)
       => /\ ~ret.has_more
          /\ Present(ret.s, PageKey)
          /\ ~has_more(ret.desc.type, CursorOf(ret.s, PageKey),
                       tbl[CursorOf(ret.s, PageKey).tbl])

\* an exhausted cursor was fetched again
C8_Witness ==
  /\ Page /\ ret.op = "get_more" /\ ret.num_entries = 0
  /\ PageScan.taken > 0
  /\ Present(ret.s, PageKey)

\* C9: an expression that does not parse makes add_filter and add_trigger
\* fail with a Management error and adhoc_filter and combined_filter with
\* InvalidOperation; the table and the cursor maps are left as they were.
C9_ParseFailure ==
  [][ret'.req = "unparsable" =>
       /\ ret'.op \in {"add_filter", "add_trigger"}
            => ret'.status = "rpc_management_exception"
       /\ ret'.op \in {"adhoc_filter", "combined_filter"}
            => ret'.status = "rpc_invalid_operation"
       /\ UNCHANGED <<tbl, cursorVars>>]_vars

\* combined_filter failed to parse while a cursor with records left is open
C9_Witness ==
  /\ ret.op = "combined_filter" /\ ret.req = "unparsable"
  /\ \E key \in Keys(ret.s) :
       /\ Present(ret.s, key)
       /\ has_more(key[1], CursorOf(ret.s, key),
                   tbl[CursorOf(ret.s, key).tbl])

\* C10: every record appended reads back, at the offset its append
\* returned, as the bytes that were appended, whatever was appended since;
\* read(o, k) returns the k records appended from offset o on.
C10_AppendReadRoundTrip ==
  \A id \in DOMAIN tbl :
    LET t == tbl[id]
    IN  /\ \A i \in 1..Len(t.log) :
             StoreRead(t.store, t.log[i].offset, RecordSize) = t.log[i].data
        /\ (ret.op = "read" /\ cur_table_[ret.s] = id) =>
             \E i \in 1..Len(t.log) :
               /\ t.log[i].offset = ret.value
               /\ ret.data = Flatten([k \in 1..ret.num_entries |->
                                        t.log[i + k - 1].data])

\* the first of two different records was read after the second was appended
C10_Witness ==
  /\ ret.op = "read" /\ ret.value = 0 /\ ret.num_entries = 1
  /\ cur_table_[ret.s] # NULL
  /\ LET t == tbl[cur_table_[ret.s]]
     IN  Len(t.log) = 2 /\ t.log[1].data # t.log[2].data

\* C11: the appends of a table return the offsets 0, record_size,
\* 2 * record_size, ...: each the tail before it, record_size past the one
\* before; num_records returns tail / record_size, the number of appends.
C11_OffsetsAndCount ==
  \A id \in DOMAIN tbl :
    LET t == tbl[id]
        n == Len(t.log)
    IN  /\ \A i \in 1..n : t.log[i].offset = (i - 1) * RecordSize
        /\ Len(t.store) = n * RecordSize
        /\ (ret.op = "append" /\ cur_table_[ret.s] = id)
             => /\ n > 0
                /\ ret.value = t.log[n].offset
                /\ ret.value = Len(t.store) - RecordSize
        /\ (ret.op = "num_records" /\ cur_table_[ret.s] = id)
             => /\ ret.value = n
                /\ ret.value * RecordSize = Len(t.store)

\* num_records answered 2 after the second append
C11_Witness ==
  /\ ret.op = "num_records" /\ ret.value = 2
  /\ cur_table_[ret.s] # NULL
  /\ Len(tbl[cur_table_[ret.s]].log) = 2
  /\ tbl[cur_table_[ret.s]].log[2].offset = RecordSize

\* C12: the appends of any number of threads, however interleaved, are
\* given offsets that are distinct and whose byte ranges do not overlap,
\* and an append that began after another had returned is given a larger
\* offset than it.
C12_Linearizable ==
  \A id \in DOMAIN tbl :
    LET t == tbl[id]
        given == [i \in 1..Len(t.log) |-> t.log[i].offset]
    IN  /\ \A i, j \in 1..Len(given) :
             i # j => \/ given[i] + RecordSize <= given[j]
                      \/ given[j] + RecordSize <= given[i]
        /\ \A x \in Reserved(t) :
             LET p == t.inflight[x]
             IN  /\ \A i \in 1..Len(given) :
                       \/ given[i] + RecordSize <= p.offset
                       \/ p.offset + RecordSize <= given[i]
                 /\ \A i \in 1..p.seen : given[i] <= p.offset
                 /\ \A y \in Reserved(t) \ {x} :
                       \/ t.inflight[y].offset + RecordSize <= p.offset
                       \/ p.offset + RecordSize <= t.inflight[y].offset
        /\ (ret.op = "append" /\ cur_table_[ret.s] = id /\ Len(given) > 0)
             => ret.value = given[Len(given)]

\* S2's append began while S1's was in flight and was given the bytes after
\* it, once S1's had returned
C12_Witness ==
  /\ ret.op = "append" /\ ret.s = "S1" /\ ret.value = 0
  /\ "S2" \in Reserved(tbl[0])
  /\ tbl[0].inflight["S2"].seen = 0
  /\ tbl[0].inflight["S2"].offset = RecordSize

\* C13: add_table of a new name returns the next id, the ids given being
\* 0, 1, 2, ... in order, and puts the table under that name and id;
\* get_table_id(name) returns that id until the table is removed; add_table
\* of a name that exists fails with a management error and leaves both
\* mappings as they were.
C13_AddTable ==
  [][ /\ DOMAIN tbl' = 0..(Cardinality(DOMAIN tbl') - 1)
      /\ \A n \in DOMAIN tables \cap DOMAIN tables' : tables'[n] = tables[n]
      /\ \A n \in DOMAIN tables' : IsTableIn(tbl', tables'[n])
      /\ (ret'.op = "create_table" /\ ret'.status = "ok")
           => /\ ret'.req \notin DOMAIN tables
              /\ ret'.value = Cardinality(DOMAIN tbl)
              /\ \A id \in DOMAIN tbl : id < ret'.value
              /\ tables' = tables @@ (ret'.req :> ret'.value)
              /\ tbl' = tbl @@ (ret'.value :> NewTable)
      /\ (ret'.op = "create_table" /\ ret'.status # "ok")
           => /\ ret'.req \in DOMAIN tables
              /\ ret'.status = "rpc_management_exception"
              /\ UNCHANGED storeVars
      /\ (ret'.op = "get_table_id" /\ ret'.req \in DOMAIN tables)
           => /\ ret'.value = tables[ret'.req]
              /\ UNCHANGED storeVars
    ]_vars

\* the second table added is looked up after the first was removed
C13_Witness ==
  /\ ret.op = "get_table_id" /\ ret.req = "your_table" /\ ret.value = 1
  /\ ~IsTable(0)
  /\ "my_table" \notin DOMAIN tables

\* C14: remove_table(id) of an existing table returns its id, not -1, and
\* takes the table out of the by-id and the by-name mapping, so that
\* remove_table(name) of its name then fails with "No such table <name>";
\* remove_table(name) of any absent name fails so and changes nothing.
C14_RemoveTable ==
  [][ /\ (ret'.op = "remove_table" /\ IsTable(ret'.req))
           => /\ ret'.value = ret'.req
              /\ ret'.value # -1
              /\ ~IsTableIn(tbl', ret'.req)
              /\ \A n \in NamesOf(ret'.req) : n \notin DOMAIN tables'
              /\ \A n \in DOMAIN tables' : tables'[n] # ret'.req
              /\ \A n \in DOMAIN tables \ NamesOf(ret'.req) :
                    n \in DOMAIN tables' /\ tables'[n] = tables[n]
              /\ \A id \in DOMAIN tbl \ {ret'.req} : tbl'[id] = tbl[id]
      /\ (ret'.op = "remove_table_by_name" /\ ret'.req \notin DOMAIN tables)
           => /\ ret'.status = "management_exception"
              /\ ret'.msg = NoSuchTable(ret'.req)
              /\ UNCHANGED storeVars
      /\ (ret'.op = "remove_table_by_name" /\ ret'.status # "ok")
           => ret'.req \notin DOMAIN tables
      /\ \A n \in DOMAIN tables : IsTable(tables[n])
    ]_vars

\* the test RemoveTableTest: my_table removed by id, then by name
C14_Witness ==
  /\ ret.op = "remove_table_by_name" /\ ret.req = "my_table"
  /\ ret.status = "management_exception"
  /\ ret.msg = "No such table my_table"
  /\ 0 \in DOMAIN tbl /\ tbl[0] = NoTable("id")

\* The history of a table's appends, as the trigger engine is meant to see it
BucketOf(t, i) == TimeBucket(t.log[i].data[1])

\* the latest bucket among the first i appends
LatestOf(t, i) ==
  IF i = 0 THEN -1
  ELSE CHOOSE b \in {BucketOf(t, j) : j \in 1..i} :
         \A j \in 1..i : BucketOf(t, j) <= b

\* the records of bucket b among the first i appends that match n's filter
Matching(t, n, b, i) ==
  Cardinality({j \in 1..i :
    /\ BucketOf(t, j) = b
    /\ EvalFilter(t.filters[t.triggers[n].filter_name].expr, t.log[j].data)})

Threshold(t, n) == ParseTrigger(t.triggers[n].expr).lit

\* the appends that moved the table from bucket b to a later one
ClosedAt(t, b) ==
  {i \in 1..Len(t.log) : BucketOf(t, i) > b /\ LatestOf(t, i - 1) = b}

AlertsFor(t, n, b) ==
  {i \in 1..Len(t.alerts) :
     t.alerts[i].trigger_name = n /\ t.alerts[i].time_bucket_ms = b}

Buckets == {TimeBucket(ts) : ts \in EventTimes}

Registered(t, f) ==
  {o \in Offsets(Len(t.store)) :
     /\ o >= t.filters[f].from
     /\ EvalFilter(t.filters[f].expr, Rec(t.store, o))}

InBucket(t, f, b) ==
  {o \in Registered(t, f) : TimeBucket(Rec(t.store, o)[1]) = b}

\* the time index holds exactly the registered offsets, each once, under the
\* bucket of its record, in append order inside a bucket
IndexExact(t, f) ==
  LET idx == t.filters[f].time_index
  IN  /\ \A b \in DOMAIN idx : idx[b] = SortedSeq(InBucket(t, f, b))
      /\ \A o \in Registered(t, f) :
           TimeBucket(Rec(t.store, o)[1]) \in DOMAIN idx

ByBucket(t, f) ==
  LET bs == SortedSeq({TimeBucket(ts) : ts \in Timestamps})
  IN  Flatten([i \in 1..Len(bs) |-> SortedSeq(InBucket(t, f, bs[i]))])

QueryAll(id, f) ==
  query_filter(id, tbl[id], f, 0, TimeBucket(NsPerMs)).offs

FirstPageOf(t, offs) ==
  IsPrefix(ret.data, Flatten(RecordItems(t.store, offs)))

\* C16, as stated: the time index of f is exact and the query of f over
\* all time yields the registered offsets in append order.
C16_Original ==
  \A id \in DOMAIN tbl : \A f \in DOMAIN tbl[id].filters :
    /\ IndexExact(tbl[id], f)
    /\ QueryAll(id, f) = SortedSeq(Registered(tbl[id], f))
    /\ (ret.op = "predef_filter" /\ ret.status = "ok"
        /\ cur_table_[ret.s] = id)
         => FirstPageOf(tbl[id], SortedSeq(Registered(tbl[id], f)))

\* C16: after any appends following add_filter(f, expr), the time index of
\* f holds exactly the offsets of the records appended since registration
\* that satisfy expr, each once, under the millisecond bucket of its
\* record; the query of f over all time yields exactly those offsets, by
\* ascending bucket and in append order inside a bucket, which is append
\* order when the timestamps never decrease.
C16_Amended ==
  \A id \in DOMAIN tbl : \A f \in DOMAIN tbl[id].filters :
    LET t == tbl[id]
        q == QueryAll(id, f)
    IN  /\ IndexExact(t, f)
        /\ q = ByBucket(t, f)
        /\ {q[i] : i \in 1..Len(q)} = Registered(t, f)
        /\ Len(q) = Cardinality(Registered(t, f))
        /\ (\A i, j \in 1..Len(t.log) :
              i < j => t.log[i].data[1] <= t.log[j].data[1])
             => q = SortedSeq(Registered(t, f))
        /\ (ret.op = "predef_filter" /\ ret.status = "ok"
            /\ cur_table_[ret.s] = id)
             => FirstPageOf(t, ByBucket(t, f))

\* two matching records appended against the order of their timestamps,
\* listed by the query with the later one first
C16_Witness ==
  /\ ret.op = "predef_filter" /\ ret.status = "ok" /\ ret.num_entries = 2
  /\ "f" \in DOMAIN tbl[0].filters
  /\ QueryAll(0, "f") = <<RecordSize, 0>>

\* C17: the id that an open call is about to allocate is in none of the
\* session's cursor maps, every key of the maps having been allocated
\* before, so no open call finds its id present and none raises the
\* duplicate-id error.
C17_NoDuplicateId ==
  /\ \A s \in Sessions : \A type \in IteratorTypes :
       /\ iterator_id_[s] \notin DOMAIN CursorMap(type)[s]
       /\ \A k \in DOMAIN CursorMap(type)[s] : k < iterator_id_[s]
  /\ ret.msg # "Duplicate rpc_iterator_id assigned"
  /\ (ret.op \in {"adhoc_filter", "predef_filter", "combined_filter",
                  "alerts_by_time"} /\ ret.status # "ok")
       => ret.msg = "parse error"

\* a second cursor of a kind opened while the first is in the map
C17_Witness ==
  /\ ret.op = "adhoc_filter" /\ ret.status = "ok" /\ ret.desc.id = 1
  /\ DOMAIN adhoc_["S1"] = {0, 1}

\* C18: a successful get_more of session S on cursor (K, i) changes at most
\* that cursor: every other cursor of S and every cursor of every other
\* session stays in its map as it was, no cursor is added or removed, and
\* iterator_id_, handler_id_ and cur_table_ of every session are unchanged.
C18_GetMoreFrame ==
  [][(ret'.op = "get_more" /\ ret'.status = "ok") =>
       /\ \A x \in Sessions : \A type \in IteratorTypes :
            /\ DOMAIN CursorMap(type)'[x] = DOMAIN CursorMap(type)[x]
            /\ \A id \in DOMAIN CursorMap(type)[x] :
                 (x # ret'.s \/ type # ret'.desc.type \/ id # ret'.desc.id)
                   => CursorMap(type)'[x][id] = CursorMap(type)[x][id]
       /\ UNCHANGED <<iterator_id_, handler_id_, cur_table_, thread_ids,
                      storeVars>>]_vars

\* S1 fetched the second page of its combined cursor 1 while it holds the
\* ad hoc cursor 0 and S2 holds a cursor with a record left
C18_Witness ==
  /\ ret.op = "get_more" /\ ret.status = "ok" /\ ret.s = "S1"
  /\ ret.desc.type = RPC_COMBINED /\ ret.desc.id = 1 /\ ret.num_entries = 1
  /\ 0 \in DOMAIN adhoc_["S1"]
  /\ has_more(RPC_ADHOC, adhoc_["S1"][0], tbl[0])
  /\ 0 \in DOMAIN adhoc_["S2"]
  /\ has_more(RPC_ADHOC, adhoc_["S2"][0], tbl[0])

\* the descriptors that name a cursor of s by its id and another kind
OtherKind(s) ==
  {d \in [handler_id : {handler_id_[s]},
          id : UNION {DOMAIN CursorMap(type)[s] : type \in IteratorTypes},
          type : IteratorTypes, data_type : {""}] :
     d.id \notin DOMAIN CursorMap(d.type)[s]}

\* C19: the key sets of a session's four cursor maps are pairwise disjoint,
\* and get_more with the session's handler id, the id of one of its cursors
\* and another kind than the cursor's raises
\* InvalidOperation("No such iterator") and leaves every cursor as it was.
C19_KindConfinement ==
  [][ /\ \A s \in Sessions : \A t1, t2 \in IteratorTypes :
           t1 # t2 =>
             DOMAIN CursorMap(t1)'[s] \cap DOMAIN CursorMap(t2)'[s] = {}
      /\ ret'.op = "get_more" =>
           \A d \in OtherKind(ret'.s) :
             get_more(ret'.s, d) =>
               /\ ret'.status = "rpc_invalid_operation"
               /\ ret'.msg = "No such iterator"
               /\ ret'.data = <<>> /\ ret'.num_entries = 0
               /\ UNCHANGED cursorVars
    ]_vars

\* the ad hoc cursor 0, with records left, was asked for as an alert cursor
\* and refused
C19_Witness ==
  /\ ret.op = "get_more" /\ ret.req = "unknown"
  /\ ret.msg = "No such iterator"
  /\ DOMAIN adhoc_["S1"] = {0} /\ DOMAIN alerts_["S1"] = {1}
  /\ has_more(RPC_ADHOC, adhoc_["S1"][0], tbl[0])

OpenOps ==
  {"adhoc_filter", "predef_filter", "combined_filter", "alerts_by_time"}

\* C20: every open call, failed or not, advances the session's iterator_id_
\* by exactly one, and a successful one returns the id the counter held: a
\* cursor's id is the number of open calls made before its own, so the ids
\* of the cursors opened are strictly increasing and skip the ids that
\* failed calls consumed.
C20_FailedOpenConsumesId ==
  [][ret'.op \in OpenOps =>
       LET s == ret'.s
       IN  /\ iterator_id_' = [iterator_id_ EXCEPT ![s] = @ + 1]
           /\ Len(scans'[s].issued) = Len(scans[s].issued) + 1
           /\ Len(scans[s].issued) = iterator_id_[s]
           /\ ret'.status = "ok"
                => /\ ret'.desc.id = iterator_id_[s]
                   /\ \E type \in IteratorTypes :
                        /\ type = ret'.desc.type
                        /\ iterator_id_[s] \in DOMAIN CursorMap(type)'[s]
                   /\ \A type \in IteratorTypes :
                        \A k \in DOMAIN CursorMap(type)[s] : k < ret'.desc.id
           /\ ret'.status # "ok"
                => /\ ret'.msg = "parse error"
                   /\ UNCHANGED cursorVars
                   /\ \A type \in IteratorTypes :
                        iterator_id_[s] \notin DOMAIN CursorMap(type)'[s]]_vars

\* the first cursor the session opened has id 1: the open call before it
\* failed to parse and consumed id 0
C20_Witness ==
  /\ ret.op = "adhoc_filter" /\ ret.status = "ok" /\ ret.desc.id = 1
  /\ DOMAIN adhoc_["S1"] = {1}
  /\ \A type \in IteratorTypes \ {RPC_ADHOC} : CursorMap(type)["S1"] = Empty
  /\ iterator_id_["S1"] = 2

====
